---------------------------- MODULE Spec2Model ----------------------------
(***************************************************************************)
(* Signalo: hierarchical location filtering of the organization directory, *)
(* location extraction from a conversation, and the /chat finalization     *)
(* pipeline of src/main.py.                                                 *)
(*                                                                         *)
(* Text.  A Python str is modelled as a sequence of lexemes: a lexeme is a  *)
(* single character (" ", ";", ",", "{", ...) or a run of letters written   *)
(* as one TLA+ string ("Plovdiv").  strip, lower, split and the substring   *)
(* test `in` are computed on these sequences.                               *)
(*                                                                         *)
(* Values.  A Python/JSON value is a tagged record: None, Str(s), Num(n),   *)
(* Obj(d).  A dict of fixed shape (an organization, a message, a response)  *)
(* is a TLA+ record; a dict whose keys vary (a location, a parsed reply)    *)
(* is a function from key strings, themselves lexeme sequences, to values.  *)
(***************************************************************************)
EXTENDS Integers, Sequences, FiniteSets, TLC

VARIABLES
    ORGANIZATIONS,   \* the module-level organization directory (main.py:62)
    filterLocation,  \* /filter-organizations: the request body (a location dict)
    filtered,        \* the "organizations" list the last call returned, or NoCall
    prevFiltered,    \* the list the call before it returned, or NoCall
    messages,        \* the conversation: a list of [role, content] dicts
    extracted,       \* what extract_location_from_messages last returned, or NoResult
    request_context, \* /chat: request.location_context of the turn last handled
    assistant_message, \* /chat: the collaborator's reply of that turn, or NoReply
    response,        \* /chat: the dict that turn returned, or NoResponse
    signals,         \* the signal_data of every turn answered with a Signal
    staging,         \* media store: the staged artifacts, by media_id
    permanent,       \* media store: the committed media of each signal_id
    next_handle,     \* media store: the next fresh handle (batch or media)
    media_call       \* media store: the last stage or commit call and what it returned

filterVars == <<filterLocation, filtered, prevFiltered>>
extractVars == <<extracted>>
chatVars == <<request_context, assistant_message, response, signals>>
mediaVars == <<staging, permanent, next_handle, media_call>>
vars == <<ORGANIZATIONS, filterVars, messages, extractVars, chatVars, mediaVars>>

---------------------------------------------------------------------------
(* Values *)

None == [t |-> "null"]
Str(s) == [t |-> "str", s |-> s]
Num(n) == [t |-> "num", n |-> n]
Obj(d) == [t |-> "obj", d |-> d]

\* "Not called yet", for a variable holding a list and for one holding a dict.
NoCall == <<[t |-> "no call"]>>
NoResult == [t |-> "no call"]
NoReply == [t |-> "no reply"]
NoResponse == [t |-> "no response"]
NoMediaCall == [op |-> "none"]

Range(f) == {f[i] : i \in DOMAIN f}

\* The signals media can be committed to.
SignalIds == {"S", "T"}

\* The media staging store before any upload.
MediaIdle ==
    /\ staging = <<>>
    /\ permanent = [signal_id \in SignalIds |-> {}]
    /\ next_handle = 1
    /\ media_call = NoMediaCall

---------------------------------------------------------------------------
(* Text primitives: str.lower, str.strip, str.split, `x in s` *)

\* str.lower() on one lexeme: the letters of the model's alphabet.
LowerLex(c) ==
    CASE c = "Plovdiv" -> "plovdiv"
      [] c = "PLOVDIV" -> "plovdiv"
      [] c = "Varna"   -> "varna"
      [] c = "Sofia"   -> "sofia"
      [] c = "Zapaden" -> "zapaden"
      [] c = "Odesos"  -> "odesos"
      [] c = "Rayon"   -> "rayon"
      [] c = "Lozenets" -> "lozenets"
      [] c = "Hello"   -> "hello"
      [] c = "Dupka"   -> "dupka"
      [] c = "Obshtina" -> "obshtina"
      [] c = "A"       -> "a"
      [] c = "B"       -> "b"
      [] c = "C"       -> "c"
      [] OTHER         -> c

Lower(s) == [i \in DOMAIN s |-> LowerLex(s[i])]

IsSpace(c) == c = " "

RECURSIVE LStrip(_)
LStrip(s) == IF s # <<>> /\ IsSpace(Head(s)) THEN LStrip(Tail(s)) ELSE s

RECURSIVE RStrip(_)
RStrip(s) ==
    IF s # <<>> /\ IsSpace(s[Len(s)]) THEN RStrip(SubSeq(s, 1, Len(s) - 1)) ELSE s

Strip(s) == RStrip(LStrip(s))

\* `sub in s` for strings: sub occurs as a contiguous run of s.
Contains(s, sub) ==
    \E i \in 1..(Len(s) - Len(sub) + 1) : SubSeq(s, i, i + Len(sub) - 1) = sub

\* s.find(c) for a one-lexeme c, 1-based; 0 when absent (Python: -1).
Find(s, c) ==
    IF \E i \in DOMAIN s : s[i] = c
    THEN CHOOSE i \in DOMAIN s : s[i] = c /\ \A j \in 1..(i - 1) : s[j] # c
    ELSE 0

\* s.split(sep) for a one-lexeme separator: the list of pieces, empty ones kept.
RECURSIVE Split(_, _)
Split(s, sep) ==
    LET k == Find(s, sep)
    IN  IF k = 0 THEN <<s>>
        ELSE <<SubSeq(s, 1, k - 1)>> \o Split(SubSeq(s, k + 1, Len(s)), sep)

---------------------------------------------------------------------------
(* main.py:64-81 *)

\* normalize_location: "" for None or "", else strip().lower()
normalize_location(location) ==
    IF location = None \/ location.s = <<>> THEN <<>>
    ELSE Lower(Strip(location.s))

\* Variant of location_matches that never splits a list of alternatives.
location_matches_NoSplit(user_location, org_location) ==
    IF org_location = None THEN TRUE
    ELSE normalize_location(user_location) = normalize_location(org_location)

\* location_matches(user_location, org_location)
location_matches(user_location, org_location) ==
    IF org_location = None THEN TRUE
    ELSE IF Contains(org_location.s, <<";">>) \/ Contains(org_location.s, <<",">>)
         THEN LET sep == IF Contains(org_location.s, <<";">>) THEN ";" ELSE ","
                  parts == Split(org_location.s, sep)
                  org_locations == [i \in DOMAIN parts |-> normalize_location(Str(parts[i]))]
              IN  normalize_location(user_location) \in Range(org_locations)
         ELSE normalize_location(user_location) = normalize_location(org_location)

---------------------------------------------------------------------------
(* main.py:83-140 *)

\* Variant of Keep without the "too specific" exclusions: every level is
\* treated the way the oblast level is.
Keep_NoTooSpecific(org, oblast, obshtina, grad, rayon) ==
    /\ ~(org.oblast # None /\ oblast # None /\ ~location_matches(oblast, org.oblast))
    /\ ~(org.obshtina # None /\ obshtina # None /\ ~location_matches(obshtina, org.obshtina))
    /\ ~(org.grad # None /\ grad # None /\ ~location_matches(grad, org.grad))
    /\ ~(org.rayon # None /\ rayon # None /\ ~location_matches(rayon, org.rayon))

\* Variant of Keep that wants the organization to state every level below
\* oblast that the query states.
Keep_ExactLevel(org, oblast, obshtina, grad, rayon) ==
    /\ ~(org.oblast # None /\ oblast # None /\ ~location_matches(oblast, org.oblast))
    /\ IF obshtina = None THEN org.obshtina = None
       ELSE org.obshtina # None /\ location_matches(obshtina, org.obshtina)
    /\ IF grad = None THEN org.grad = None
       ELSE org.grad # None /\ location_matches(grad, org.grad)
    /\ IF rayon = None THEN org.rayon = None
       ELSE org.rayon # None /\ location_matches(rayon, org.rayon)

\* Variant of Keep whose oblast rule is as strict as the rules of the other
\* levels: a query without oblast excludes the organizations that state one.
Keep_StrictOblast(org, oblast, obshtina, grad, rayon) ==
    /\ IF oblast = None THEN org.oblast = None
       ELSE ~(org.oblast # None /\ ~location_matches(oblast, org.oblast))
    /\ IF obshtina = None THEN org.obshtina = None
       ELSE ~(org.obshtina # None /\ ~location_matches(obshtina, org.obshtina))
    /\ IF grad = None THEN org.grad = None
       ELSE ~(org.grad # None /\ ~location_matches(grad, org.grad))
    /\ IF rayon = None THEN org.rayon = None
       ELSE ~(org.rayon # None /\ ~location_matches(rayon, org.rayon))

\* The body of the loop for one org: TRUE iff no `continue` is taken.
Keep(org, oblast, obshtina, grad, rayon) ==
    /\ ~(org.oblast # None /\ oblast # None /\ ~location_matches(oblast, org.oblast))
    /\ IF obshtina = None THEN org.obshtina = None
       ELSE ~(org.obshtina # None /\ ~location_matches(obshtina, org.obshtina))
    /\ IF grad = None THEN org.grad = None
       ELSE ~(org.grad # None /\ ~location_matches(grad, org.grad))
    /\ IF rayon = None THEN org.rayon = None
       ELSE ~(org.rayon # None /\ ~location_matches(rayon, org.rayon))

\* filtered = []; for org in ORGANIZATIONS: ...; filtered.append(org)
filter_organizations_by_location(oblast, obshtina, grad, rayon) ==
    LET valid(org) == Keep(org, oblast, obshtina, grad, rayon)
    IN  SelectSeq(ORGANIZATIONS, valid)

\* dict.get(key) on a location dict: the value, or None when the key is absent.
Get(d, key) == IF key \in DOMAIN d THEN d[key] ELSE None

---------------------------------------------------------------------------
(* Directories and queries the filter is exercised on *)

Org(id, oblast, obshtina, grad, rayon) ==
    [id |-> id, oblast |-> oblast, obshtina |-> obshtina, grad |-> grad, rayon |-> rayon]

Plovdiv == Str(<<"Plovdiv">>)
Varna == Str(<<"Varna">>)
Zapaden == Str(<<"Zapaden">>)

\* The directory of the docstring examples (main.py:92-95) and of the start-up
\* self-test (main.py:487-497): one organization per level.
ScenarioDirectory ==
    << Org(1, None, None, None, None),
       Org(2, Plovdiv, None, None, None),
       Org(3, Plovdiv, Plovdiv, Plovdiv, None),
       Org(4, Plovdiv, Plovdiv, Plovdiv, Zapaden) >>

\* Organizations whose obshtina cell lists alternatives.
MultiDirectory ==
    << Org(10, None, Str(<<"A", ";", "B">>), None, None),
       Org(11, None, Str(<<"A", ",", "B">>), None, None),
       Org(12, None, Str(<<" ", "a", " ", ";", " ", "B", " ">>), None, None),
       Org(13, Plovdiv, Str(<<"A", ";", "B">>), None, None),
       Org(14, None, Str(<<"A", ";", "B", ",", "C">>), None, None),
       Org(15, None, Str(<<"A", ";", "B">>), Plovdiv, None),
       Org(16, None, Str(<<"A", ";">>), None, None),
       Org(17, None, Str(<<"C">>), None, None) >>

\* Every combination of absent / Plovdiv / Varna over the four levels.
NumOrgs == 81
CellValue(k) == CASE k = 0 -> None [] k = 1 -> Plovdiv [] OTHER -> Varna
BroadDirectory ==
    [k \in 1..NumOrgs |->
        Org(100 + k, CellValue((k - 1) % 3), CellValue(((k - 1) \div 3) % 3),
            CellValue(((k - 1) \div 9) % 3), CellValue(((k - 1) \div 27) % 3))]

Directories == {ScenarioDirectory, MultiDirectory, BroadDirectory}

\* What a request may put in a level: nothing, or a string.
QueryValues ==
    { None, Plovdiv, Str(<<" ", "plovdiv", " ">>), Varna, Zapaden,
      Str(<<"b">>), Str(<<"c">>), Str(<<>>) }

LevelNames == <<"oblast", "obshtina", "grad", "rayon">>
\* The keys of a location dict.
Levels == [i \in 1..4 |-> <<LevelNames[i]>>]

\* A location dict: a function from some of the level names to QueryValues.
LocationDicts ==
    UNION {[ks -> QueryValues \ {None}] : ks \in SUBSET Range(Levels)}

---------------------------------------------------------------------------
(* /filter-organizations, main.py:446-459 *)

InitFilter ==
    /\ ORGANIZATIONS \in Directories
    /\ filterLocation \in LocationDicts
    /\ filtered = NoCall
    /\ prevFiltered = NoCall
    /\ messages = <<>>
    /\ extracted = NoResult
    /\ request_context = None
    /\ assistant_message = NoReply
    /\ response = NoResponse
    /\ signals = <<>>
    /\ MediaIdle

\* Variant of filter_orgs that filters the directory in place.
filter_orgs_InPlace ==
    /\ filtered' = filter_organizations_by_location(
                       Get(filterLocation, <<"oblast">>), Get(filterLocation, <<"obshtina">>),
                       Get(filterLocation, <<"grad">>), Get(filterLocation, <<"rayon">>))
    /\ prevFiltered' = filtered
    /\ ORGANIZATIONS' = filtered'
    /\ UNCHANGED <<filterLocation, messages, extractVars, chatVars, mediaVars>>

filter_orgs ==
    /\ filtered' = filter_organizations_by_location(
                       Get(filterLocation, <<"oblast">>), Get(filterLocation, <<"obshtina">>),
                       Get(filterLocation, <<"grad">>), Get(filterLocation, <<"rayon">>))
    /\ prevFiltered' = filtered
    /\ UNCHANGED <<ORGANIZATIONS, filterLocation, messages, extractVars, chatVars, mediaVars>>

NextFilter == filter_orgs

SpecFilter == InitFilter /\ [][NextFilter]_vars

---------------------------------------------------------------------------
(* extract_location_from_messages, main.py:142-190 *)

\* location_db, in insertion order (Cyrillic transliterated).
City(key, oblast, obshtina, grad) ==
    [key |-> key, oblast |-> Str(oblast), obshtina |-> Str(obshtina), grad |-> Str(grad)]
location_db ==
    << City(<<"plovdiv">>, <<"Plovdiv">>, <<"Plovdiv">>, <<"Plovdiv">>),
       City(<<"sofia">>, <<"Sofia", "-", "stolitsa">>, <<"Sofia">>, <<"Sofia">>),
       City(<<"varna">>, <<"Varna">>, <<"Varna">>, <<"Varna">>),
       City(<<"burgas">>, <<"Burgas">>, <<"Burgas">>, <<"Burgas">>),
       City(<<"ruse">>, <<"Ruse">>, <<"Ruse">>, <<"Ruse">>),
       City(<<"stara", " ", "zagora">>, <<"Stara", " ", "Zagora">>,
            <<"Stara", " ", "Zagora">>, <<"Stara", " ", "Zagora">>),
       City(<<"pleven">>, <<"Pleven">>, <<"Pleven">>, <<"Pleven">>),
       City(<<"sliven">>, <<"Sliven">>, <<"Sliven">>, <<"Sliven">>),
       City(<<"dobrich">>, <<"Dobrich">>, <<"Dobrich">>, <<"Dobrich">>) >>

\* rayon_patterns, in insertion order.
Rayon(key, value) == [key |-> key, value |-> Str(value)]
rayon_patterns ==
    << Rayon(<<"zapaden">>, <<"Rayon", " ", "Zapaden">>),
       Rayon(<<"iztochen">>, <<"Rayon", " ", "Iztochen">>),
       Rayon(<<"severen">>, <<"Rayon", " ", "Severen">>),
       Rayon(<<"tsentralen">>, <<"Rayon", " ", "Tsentralen">>),
       Rayon(<<"trakia">>, <<"Rayon", " ", "Trakia">>),
       Rayon(<<"yuzhen">>, <<"Rayon", " ", "Yuzhen">>),
       Rayon(<<"lozenets">>, <<"Lozenets">>),
       Rayon(<<"vitosha">>, <<"Vitosha">>),
       Rayon(<<"mladost">>, <<"Mladost">>),
       Rayon(<<"asparuhovo">>, <<"Rayon", " ", "Asparuhovo">>),
       Rayon(<<"odesos">>, <<"Rayon", " ", "Odesos">>) >>

\* The number of trailing messages that are examined: messages[-6:].
Window == 6

\* lst[-n:]
LastN(lst, n) == IF Len(lst) <= n THEN lst ELSE SubSeq(lst, Len(lst) - n + 1, Len(lst))

\* The index of the first entry of `table` whose key occurs in content; 0 if none.
FirstKeyIn(table, content) ==
    IF \E k \in DOMAIN table : Contains(content, table[k].key)
    THEN CHOOSE k \in DOMAIN table :
            /\ Contains(content, table[k].key)
            /\ \A j \in 1..(k - 1) : ~Contains(content, table[j].key)
    ELSE 0

\* The body of the loop for one message whose content holds a city key:
\* result = loc_data.copy(), plus result['rayon'] when a rayon key occurs too.
LocationIn(content) ==
    LET c == location_db[FirstKeyIn(location_db, content)]
        r == FirstKeyIn(rayon_patterns, content)
        result == [k \in {<<"oblast">>, <<"obshtina">>, <<"grad">>} |-> c[k[1]]]
    IN  IF r # 0 THEN (<<"rayon">> :> rayon_patterns[r].value) @@ result ELSE result

\* Variant of ScanReversed that takes the oldest turn naming a city instead of
\* the most recent one.
ScanReversed_OldestFirst(msgs, i) ==
    LET named == {k \in 1..i : FirstKeyIn(location_db, Lower(msgs[k].content)) # 0}
    IN  IF named = {} THEN None
        ELSE LocationIn(Lower(msgs[CHOOSE k \in named : \A j \in named : k <= j].content))

\* for msg in reversed(msgs): ...; return None
RECURSIVE ScanReversed(_, _)
ScanReversed(msgs, i) ==
    IF i = 0 THEN None
    ELSE LET content == Lower(msgs[i].content)
         IN  IF FirstKeyIn(location_db, content) # 0 THEN LocationIn(content)
             ELSE ScanReversed(msgs, i - 1)

\* Variant that scans the whole conversation instead of messages[-6:].
extract_location_from_messages_NoWindow(msgs) == ScanReversed(msgs, Len(msgs))

extract_location_from_messages(msgs) ==
    ScanReversed(LastN(msgs, Window), Len(LastN(msgs, Window)))

---------------------------------------------------------------------------
(* Conversations the extractor is exercised on *)

MaxMessages == 7

Message(role, content) == [role |-> role, content |-> content]

\* What a turn may say: no place, a city, a city with a district, a district.
ExtractContents ==
    { <<"Hello">>,
      <<"Varna">>,
      <<"sofia", " ", "Lozenets">>,
      <<"odesos">> }

\* Turns alternate, the user first.
RoleOfTurn(n) == IF n % 2 = 1 THEN "user" ELSE "assistant"

InitExtract ==
    /\ ORGANIZATIONS = ScenarioDirectory
    /\ filterLocation = <<>>
    /\ filtered = NoCall
    /\ prevFiltered = NoCall
    /\ messages = <<>>
    /\ extracted = NoResult
    /\ request_context = None
    /\ assistant_message = NoReply
    /\ response = NoResponse
    /\ signals = <<>>
    /\ MediaIdle

\* One more turn is appended to the conversation.
AppendTurn(content) ==
    /\ Len(messages) < MaxMessages
    /\ messages' = Append(messages, Message(RoleOfTurn(Len(messages) + 1), content))
    /\ extracted' = NoResult
    /\ UNCHANGED <<ORGANIZATIONS, filterVars, chatVars, mediaVars>>

\* extract_location_from_messages is applied to the conversation.
Extract ==
    /\ extracted' = extract_location_from_messages(messages)
    /\ UNCHANGED <<ORGANIZATIONS, filterVars, messages, chatVars, mediaVars>>

NextExtract ==
    \/ \E content \in ExtractContents : AppendTurn(content)
    \/ Extract

SpecExtract == InitExtract /\ [][NextExtract]_vars

---------------------------------------------------------------------------
(* json.loads on the lexemes of a reply: objects, strings, integers, null *)

Q == "\""

ParseFail == [ok |-> FALSE, v |-> None, next |-> 0]
Parsed(v, next) == [ok |-> TRUE, v |-> v, next |-> next]

\* The first index >= i that holds no whitespace (Len(s) + 1 when there is none).
RECURSIVE SkipWs(_, _)
SkipWs(s, i) == IF i <= Len(s) /\ IsSpace(s[i]) THEN SkipWs(s, i + 1) ELSE i

Numerals == {"1", "2", "3", "4", "99"}
NumeralValue(c) ==
    CASE c = "1" -> 1 [] c = "2" -> 2 [] c = "3" -> 3 [] c = "4" -> 4 [] OTHER -> 99

\* A string literal opening at s[i] = Q: up to the next quote.
ParseString(s, i) ==
    IF \E j \in (i + 1)..Len(s) : s[j] = Q
    THEN LET j == CHOOSE j \in (i + 1)..Len(s) :
                     s[j] = Q /\ \A k \in (i + 1)..(j - 1) : s[k] # Q
         IN  Parsed(Str(SubSeq(s, i + 1, j - 1)), j + 1)
    ELSE ParseFail

RECURSIVE ParseValue(_, _)
RECURSIVE ParseMembers(_, _, _)

\* The members of an object, from the key expected at i; d holds the pairs
\* read so far, a repeated key keeping its last value.
ParseMembers(s, i, d) ==
    LET j == SkipWs(s, i)
        key == IF j <= Len(s) /\ s[j] = Q THEN ParseString(s, j) ELSE ParseFail
        c == SkipWs(s, key.next)
    IN  IF ~key.ok \/ c > Len(s) THEN ParseFail
        ELSE IF s[c] # ":" THEN ParseFail
        ELSE LET val == ParseValue(s, c + 1)
                 d2 == (key.v.s :> val.v) @@ d
                 e == SkipWs(s, val.next)
             IN  IF ~val.ok \/ e > Len(s) THEN ParseFail
                 ELSE IF s[e] = "}" THEN Parsed(Obj(d2), e + 1)
                 ELSE IF s[e] = "," THEN ParseMembers(s, e + 1, d2)
                 ELSE ParseFail

ParseValue(s, i) ==
    LET j == SkipWs(s, i)
    IN  IF j > Len(s) THEN ParseFail
        ELSE IF s[j] = "{"
             THEN LET k == SkipWs(s, j + 1)
                  IN  IF k <= Len(s) /\ s[k] = "}" THEN Parsed(Obj(<<>>), k + 1)
                      ELSE ParseMembers(s, j + 1, <<>>)
        ELSE IF s[j] = Q THEN ParseString(s, j)
        ELSE IF s[j] = "null" THEN Parsed(None, j + 1)
        ELSE IF s[j] \in Numerals THEN Parsed(Num(NumeralValue(s[j])), j + 1)
        ELSE ParseFail

\* json.loads(s): one value and nothing but whitespace after it; ParseFail
\* stands for the exception.
json_loads(s) ==
    LET r == ParseValue(s, 1)
    IN  IF r.ok /\ SkipWs(s, r.next) > Len(s) THEN r ELSE ParseFail

\* s.rfind(c), 1-based; 0 when absent.
RFind(s, c) ==
    IF \E i \in DOMAIN s : s[i] = c
    THEN CHOOSE i \in DOMAIN s : s[i] = c /\ \A j \in (i + 1)..Len(s) : s[j] # c
    ELSE 0

\* extract_json_from_text, main.py:318-330: the parsed text[start:end], or
\* None when a brace is missing, the braces are out of order or parsing fails.
extract_json_from_text(text) ==
    LET start == Find(text, "{")
        end == RFind(text, "}")
    IN  IF start # 0 /\ end >= start
        THEN LET r == json_loads(SubSeq(text, start, end))
             IN  IF r.ok THEN r.v ELSE None
        ELSE None

---------------------------------------------------------------------------
(* /chat, main.py:332-444 *)

\* validate_agency_id, main.py:332-336
validate_agency_id(agency_id, filtered_orgs) ==
    IF agency_id = None THEN FALSE
    ELSE \E i \in DOMAIN filtered_orgs : Num(filtered_orgs[i].id) = agency_id

\* The markers of the duplicate guard, main.py:358.
Markers == { <<Q, "agency_id", Q>>, <<Q, "title", Q>>, <<Q, "description", Q>>, <<Q, "agency", Q>> }

\* main.py:354-358: an assistant turn holding all the markers.
SignalAlreadySent(msgs) ==
    \E i \in DOMAIN msgs :
        /\ msgs[i].role = "assistant"
        /\ \A marker \in Markers : Contains(msgs[i].content, marker)

\* The user-facing texts.
MsgAlreadySent == Str(<<"Signalat veche beshe izpraten.">>)
MsgSuccess == Str(<<"Signalat beshe izpraten uspeshno!">>)
MsgApology == Str(<<"Sazhalyavam, vaznikna greshka.">>)

\* main.py:360-365
DuplicateResponse ==
    [signal_ready |-> FALSE, signal_sent |-> TRUE, message |-> MsgAlreadySent,
     conversation_ended |-> TRUE]

\* Variant of ApologyResponse that reports the conversation as sent and ended,
\* as the duplicate-guard response does.
ApologyResponse_Ended ==
    [signal_ready |-> FALSE, signal_sent |-> TRUE, message |-> MsgApology,
     conversation_ended |-> TRUE]

\* main.py:440-444
ApologyResponse ==
    [signal_ready |-> FALSE, signal_sent |-> FALSE, message |-> MsgApology]

\* Truthiness of request.location_context: None and {} are false.
Truthy(context) == context # None /\ DOMAIN context.d # {}

\* main.py:368: request.location_context or extract_location_from_messages(messages);
\* a dict with at least one key, or None.
LocationContextOf(context, msgs) ==
    IF Truthy(context) THEN context.d ELSE extract_location_from_messages(msgs)

\* main.py:371-383: the list offered to the collaborator.
FilteredOrgsFor(lc) ==
    IF lc # None
    THEN filter_organizations_by_location(Get(lc, <<"oblast">>), Get(lc, <<"obshtina">>),
                                          Get(lc, <<"grad">>), Get(lc, <<"rayon">>))
    ELSE ORGANIZATIONS

\* str() of a JSON value inside an f-string.
Format(v) ==
    CASE v.t = "num"  -> <<ToString(v.n)>>
      [] v.t = "null" -> <<"None">>
      [] v.t = "str"  -> v.s
      [] OTHER        -> <<"{...}">>

WarningInvalid(agency_id) == Str(<<"Invalid agency_id ">> \o Format(agency_id) \o <<" for location">>)
WarningMissing == Str(<<"Missing agency_id">>)

RequiredKeys == {<<"title">>, <<"description">>, <<"agency">>}

\* main.py:402: signal_data and all(k in signal_data for k in [...])
IsFinalized(signal_data) ==
    /\ signal_data # None
    /\ signal_data.t = "obj"
    /\ DOMAIN signal_data.d # {}
    /\ RequiredKeys \subseteq DOMAIN signal_data.d

\* main.py:404: loc.get raises unless signal_data['location'] is a dict.
LocationRaises(d) == <<"location">> \in DOMAIN d /\ d[<<"location">>].t # "obj"

\* main.py:403-419: signal_data after validation (d is a finalized dict whose
\* location, when present, is a dict).
Validated(d) ==
    IF <<"location">> \in DOMAIN d
    THEN LET loc == d[<<"location">>].d
             final_filtered_orgs ==
                 filter_organizations_by_location(
                     Get(loc, <<"oblast">>), Get(loc, <<"obshtina">>),
                     Get(loc, <<"grad">>), Get(loc, <<"rayon">>))
         IN  IF <<"agency_id">> \in DOMAIN d
             THEN IF ~validate_agency_id(d[<<"agency_id">>], final_filtered_orgs)
                  THEN (<<"validation_warning">> :> WarningInvalid(d[<<"agency_id">>])) @@ d
                  ELSE d
             ELSE (<<"validation_warning">> :> WarningMissing) @@ d
    ELSE d

\* main.py:385-444: the response once the collaborator has answered `text`.
ResponseToReply(text, lc, filtered_orgs) ==
    LET signal_data == extract_json_from_text(text)
    IN  IF IsFinalized(signal_data)
        THEN IF LocationRaises(signal_data.d) THEN ApologyResponse
             ELSE [signal_ready |-> TRUE, signal_sent |-> TRUE,
                   signal_data |-> Obj(Validated(signal_data.d)),
                   message |-> MsgSuccess,
                   filtered_org_count |-> Num(Len(filtered_orgs)),
                   conversation_ended |-> TRUE]
        ELSE [signal_ready |-> FALSE, signal_sent |-> FALSE,
              message |-> Str(text),
              filtered_org_count |-> IF lc # None THEN Num(Len(filtered_orgs)) ELSE None,
              location_context |-> lc]

HasSignal(resp) == "signal_data" \in DOMAIN resp

---------------------------------------------------------------------------
(* Replies of the collaborator and requests of the client *)

\* "key": value
KV(key, value) == <<Q, key, Q, ":", " ">> \o value
\* "word"
Lit(word) == <<Q, word, Q>>

RECURSIVE JoinPairs(_)
JoinPairs(pairs) ==
    IF pairs = <<>> THEN <<>>
    ELSE IF Len(pairs) = 1 THEN pairs[1]
    ELSE pairs[1] \o <<",", " ">> \o JoinPairs(Tail(pairs))

JsonObject(pairs) == <<"{">> \o JoinPairs(pairs) \o <<"}">>

\* The three keys that make a candidate finalized.
CorePairs ==
    << KV("title", Lit("Dupka")),
       KV("description", <<Q, "Dupka", " ", "na", " ", "ulitsata", Q>>),
       KV("agency", Lit("Obshtina")) >>

LocGrad ==
    JsonObject(<< KV("oblast", Lit("Plovdiv")), KV("obshtina", Lit("Plovdiv")),
                  KV("grad", Lit("Plovdiv")) >>)
LocOblast == JsonObject(<< KV("oblast", Lit("Plovdiv")) >>)

\* A finalized candidate; <<>> for agency_id or loc leaves the key out.
FinalReply(agency_id, loc) ==
    JsonObject(CorePairs
               \o (IF agency_id = <<>> THEN <<>> ELSE <<KV("agency_id", agency_id)>>)
               \o (IF loc = <<>> THEN <<>> ELSE <<KV("location", loc)>>))

Replies ==
    { <<"Hello", ",", " ", "v", " ", "koy", " ", "grad", "?">>,
      FinalReply(<<"2">>, LocGrad),
      FinalReply(<<"4">>, LocGrad),
      FinalReply(<<>>, LocOblast),
      FinalReply(<<>>, <<>>),
      FinalReply(<<"2">>, <<>>),
      FinalReply(<<"4">>, <<>>),
      FinalReply(<<"null">>, LocGrad),
      FinalReply(<<"2">>, <<"null">>),
      <<"Gotovo", ":", " ">> \o FinalReply(<<"2">>, <<"{", "}">>) \o <<" ", "Blagodarya", "!">>,
      JsonObject(<< CorePairs[1], CorePairs[2], KV("agency_id", <<"2">>) >>),
      <<"{">> \o JoinPairs(CorePairs \o <<KV("agency_id", <<"2">>)>>),
      JsonObject(<< KV("title", Lit("agency_id")), CorePairs[2], CorePairs[3] >>),
      <<"{", "}">>,
      <<"}", " ", "{">> }

\* The collaborator call raises.
CollaboratorFails == [t |-> "raises"]
Outcomes == {Str(text) : text \in Replies} \cup {CollaboratorFails}

\* What the user may say in a turn.
ChatContents == { <<"Hello">>, <<"Dupka", " ", "v", " ", "Plovdiv">> }

\* request.location_context: absent, empty, or a stated location.
RequestContexts ==
    { None, Obj(<<>>),
      Obj([k \in {<<"oblast">>, <<"obshtina">>, <<"grad">>} |-> Varna]) }

MaxChatMessages == 3

LastRole == IF messages = <<>> THEN "none" ELSE messages[Len(messages)].role

---------------------------------------------------------------------------
(* The conversation: the client's turns and the /chat handler *)

Init ==
    /\ ORGANIZATIONS = ScenarioDirectory
    /\ filterLocation = <<>>
    /\ filtered = NoCall
    /\ prevFiltered = NoCall
    /\ messages = <<>>
    /\ extracted = NoResult
    /\ request_context = None
    /\ assistant_message = NoReply
    /\ response = NoResponse
    /\ signals = <<>>
    /\ MediaIdle

\* The client appends the user's next turn to the conversation.
UserSays(content) ==
    /\ Len(messages) < MaxChatMessages
    /\ LastRole # "user"
    /\ messages' = Append(messages, Message("user", content))
    /\ request_context' = None
    /\ assistant_message' = NoReply
    /\ response' = NoResponse
    /\ UNCHANGED <<ORGANIZATIONS, filterVars, extractVars, signals, mediaVars>>

\* POST /chat with the conversation and a location_context; `outcome` is what
\* the collaborator call does when it is reached.
chat(context, outcome) ==
    /\ LastRole = "user"
    /\ response = NoResponse
    /\ request_context' = context
    /\ IF SignalAlreadySent(messages)
       THEN /\ response' = DuplicateResponse
            /\ assistant_message' = NoReply
       ELSE LET location_context == LocationContextOf(context, messages)
                filtered_orgs == FilteredOrgsFor(location_context)
            IN  IF outcome = CollaboratorFails
                THEN /\ response' = ApologyResponse
                     /\ assistant_message' = NoReply
                ELSE /\ response' = ResponseToReply(outcome.s, location_context, filtered_orgs)
                     /\ assistant_message' = outcome
    /\ signals' = IF HasSignal(response') THEN Append(signals, response'.signal_data)
                  ELSE signals
    /\ UNCHANGED <<ORGANIZATIONS, filterVars, messages, extractVars, mediaVars>>

\* The client records the collaborator's reply as the assistant turn of the
\* conversation it sends with the next request.
RecordReply ==
    /\ LastRole = "user"
    /\ assistant_message # NoReply
    /\ response # ApologyResponse
    /\ messages' = Append(messages, Message("assistant", assistant_message.s))
    /\ UNCHANGED <<ORGANIZATIONS, filterVars, extractVars, chatVars, mediaVars>>

\* The client sends the same request again.
Retry ==
    /\ response \in {ApologyResponse, DuplicateResponse}
    /\ response' = NoResponse
    /\ assistant_message' = NoReply
    /\ UNCHANGED <<ORGANIZATIONS, filterVars, messages, extractVars, request_context, signals, mediaVars>>

Next ==
    \/ \E content \in ChatContents : UserSays(content)
    \/ \E context \in RequestContexts, outcome \in Outcomes : chat(context, outcome)
    \/ RecordReply
    \/ Retry

Spec == Init /\ [][Next]_vars

---------------------------------------------------------------------------
(* Media Staging Store (spec 4.7): stage(items), commit(signal_id, media_ids) *)
(* and the reaping of staged media.  The store is described by the          *)
(* specification only; no source file of it is at hand.                     *)

MaxHandles == 3

\* An uploaded item: declared type, filename, mime, declared size, and
\* whether its payload decodes.
Item(type, filename, mime, size, decodes) ==
    [type |-> type, filename |-> filename, mime |-> mime, size |-> size, decodes |-> decodes]

UploadItems ==
    { Item("image", <<"a", ".", "jpg">>, "image/jpeg", 3, TRUE),
      Item("video", <<"b">>, "video/mp4", 5, TRUE),
      Item("image", <<"c", ".", "jpg">>, "image/jpeg", 2, FALSE) }

UploadBatches == {<<i>> : i \in UploadItems} \cup {<<i, j>> : i, j \in UploadItems}

\* The extension a staged artifact is stored under: the filename's own when
\* it has one, otherwise one derived from the declared type.
SafeExtension(item) ==
    IF Len(item.filename) >= 3 /\ item.filename[Len(item.filename) - 1] = "."
    THEN item.filename[Len(item.filename)]
    ELSE item.type

\* f with key k bound to v, and f without key k.
With(f, k, v) == [x \in DOMAIN f \cup {k} |-> IF x = k THEN v ELSE f[x]]
Without(f, k) == [x \in DOMAIN f \ {k} |-> f[x]]

\* stage: each item in turn under the batch's handle; an item that does not
\* decode is skipped.  Batch and media handles are drawn from one counter.
RECURSIVE StageLoop(_, _, _, _, _)
StageLoop(items, batch_id, media_id, store, descriptors) ==
    IF items = <<>>
    THEN [staging |-> store, next_handle |-> media_id, descriptors |-> descriptors]
    ELSE LET item == Head(items) IN
         IF ~item.decodes
         THEN StageLoop(Tail(items), batch_id, media_id, store, descriptors)
         ELSE StageLoop(Tail(items), batch_id, media_id + 1,
                        With(store, media_id,
                             [media_id |-> media_id, batch_id |-> batch_id,
                              type |-> item.type, original_filename |-> item.filename,
                              mime_type |-> item.mime, byte_size |-> item.size,
                              extension |-> SafeExtension(item)]),
                        Append(descriptors,
                               [media_id |-> media_id, type |-> item.type,
                                filename |-> item.filename, mime |-> item.mime,
                                size |-> item.size]))

\* Variant of CommitLoop in which a handle with no staged artifact is an error
\* that ends the call.
RECURSIVE CommitLoop_RaiseOnUnmatched(_, _, _, _)
CommitLoop_RaiseOnUnmatched(media_ids, store, moved, descriptors) ==
    IF media_ids = <<>>
    THEN [staging |-> store, moved |-> moved, descriptors |-> descriptors, raised |-> FALSE]
    ELSE LET media_id == Head(media_ids) IN
         IF media_id \notin DOMAIN store
         THEN [staging |-> store, moved |-> moved, descriptors |-> <<>>, raised |-> TRUE]
         ELSE LET descriptor == [media_id |-> media_id,
                                 filename |-> store[media_id].original_filename]
              IN  CommitLoop_RaiseOnUnmatched(Tail(media_ids), Without(store, media_id),
                             moved \cup {store[media_id]}, Append(descriptors, descriptor))

\* commit: each requested handle in turn; a handle with no staged artifact is
\* skipped, a staged one is moved under the signal.
RECURSIVE CommitLoop(_, _, _, _)
CommitLoop(media_ids, store, moved, descriptors) ==
    IF media_ids = <<>>
    THEN [staging |-> store, moved |-> moved, descriptors |-> descriptors, raised |-> FALSE]
    ELSE LET media_id == Head(media_ids) IN
         IF media_id \notin DOMAIN store
         THEN CommitLoop(Tail(media_ids), store, moved, descriptors)
         ELSE LET descriptor == [media_id |-> media_id,
                                 filename |-> store[media_id].original_filename]
              IN  CommitLoop(Tail(media_ids), Without(store, media_id),
                             moved \cup {store[media_id]}, Append(descriptors, descriptor))

\* The handles a client may ask to commit: issued ones and one never issued.
Handles == 1..(MaxHandles + 1)
HandleLists == {<<>>} \cup {<<h>> : h \in Handles} \cup {<<h, g>> : h, g \in Handles}

InitMedia ==
    /\ ORGANIZATIONS = ScenarioDirectory
    /\ filterLocation = <<>>
    /\ filtered = NoCall
    /\ prevFiltered = NoCall
    /\ messages = <<>>
    /\ extracted = NoResult
    /\ request_context = None
    /\ assistant_message = NoReply
    /\ response = NoResponse
    /\ signals = <<>>
    /\ MediaIdle

stage(items) ==
    /\ next_handle + Len(items) <= MaxHandles
    /\ LET done == StageLoop(items, next_handle, next_handle + 1, staging, <<>>) IN
        /\ staging' = done.staging
        /\ next_handle' = done.next_handle
        /\ media_call' = [op |-> "stage", descriptors |-> done.descriptors]
    /\ UNCHANGED <<ORGANIZATIONS, filterVars, messages, extractVars, chatVars,
                   permanent>>

commit(signal_id, media_ids) ==
    /\ LET done == CommitLoop(media_ids, staging, {}, <<>>) IN
        /\ staging' = done.staging
        /\ permanent' = [permanent EXCEPT ![signal_id] = @ \cup done.moved]
        /\ media_call' = [op |-> "commit", signal_id |-> signal_id, media_ids |-> media_ids,
                          descriptors |-> done.descriptors, raised |-> done.raised]
    /\ UNCHANGED <<ORGANIZATIONS, filterVars, messages, extractVars, chatVars,
                   next_handle>>

\* A staged artifact that was never committed is reaped.
Reap(media_id) ==
    /\ media_id \in DOMAIN staging
    /\ staging' = Without(staging, media_id)
    /\ UNCHANGED <<ORGANIZATIONS, filterVars, messages, extractVars, chatVars,
                   permanent, next_handle, media_call>>

NextMedia ==
    \/ \E items \in UploadBatches : stage(items)
    \/ \E signal_id \in SignalIds, media_ids \in HandleLists : commit(signal_id, media_ids)
    \/ \E media_id \in Handles : Reap(media_id)

SpecMedia == InitMedia /\ [][NextMedia]_vars

(***************************************************************************)
(*                         PROPERTIES                                      *)
(***************************************************************************)

---------------------------------------------------------------------------
(* Vocabulary of the filter properties *)

FilterCalled == filtered # NoCall
QueryField(i) == Get(filterLocation, Levels[i])
OrgField(o, i) == o[LevelNames[i]]
Returned(o) == o \in Range(filtered)

\* The deepest level (1 oblast .. 4 rayon) that is specified; 0 is national.
DeepestOfOrg(o) ==
    IF \E i \in 1..4 : OrgField(o, i) # None
    THEN CHOOSE i \in 1..4 : OrgField(o, i) # None /\ \A j \in (i + 1)..4 : OrgField(o, j) = None
    ELSE 0
DeepestOfQuery ==
    IF \E i \in 1..4 : QueryField(i) # None
    THEN CHOOSE i \in 1..4 : QueryField(i) # None /\ \A j \in (i + 1)..4 : QueryField(j) = None
    ELSE 0

\* Every field o specifies matches the query's field, when the query has it.
SpecifiedFieldsMatch(o) ==
    \A i \in 1..4 :
        (OrgField(o, i) # None /\ QueryField(i) # None)
            => location_matches(QueryField(i), OrgField(o, i))

Ids(orgs) == [i \in DOMAIN orgs |-> orgs[i].id]
C5_Scenario ==
    (FilterCalled /\ ORGANIZATIONS = ScenarioDirectory) =>
        /\ filterLocation = [k \in {<<"oblast">>} |-> Plovdiv] => Ids(filtered) = <<1, 2>>
        /\ filterLocation = [k \in {<<"oblast">>, <<"obshtina">>, <<"grad">>} |-> Plovdiv]
              => Ids(filtered) = <<1, 2, 3>>
        /\ filterLocation = [k \in Range(Levels) |-> IF k = <<"rayon">> THEN Zapaden ELSE Plovdiv]
              => Ids(filtered) = <<1, 2, 3, 4>>

C5_Witness ==
    /\ FilterCalled /\ ORGANIZATIONS = ScenarioDirectory
    /\ filterLocation = [k \in {<<"oblast">>} |-> Plovdiv]
    /\ Ids(filtered) = <<1, 2>>

\* The alternatives of a cell delimited by sep: the maximal runs without sep.
Alternatives(f, sep) ==
    { SubSeq(f, i, j) : <<i, j>> \in
        { p \in (1..(Len(f) + 1)) \X (0..Len(f)) :
            /\ p[2] >= p[1] - 1
            /\ (p[1] = 1 \/ f[p[1] - 1] = sep)
            /\ (p[2] = Len(f) \/ f[p[2] + 1] = sep)
            /\ \A k \in p[1]..p[2] : f[k] # sep } }
Separators(f) == {c \in {";", ","} : c \in Range(f)}

Position(o) == CHOOSE k \in DOMAIN ORGANIZATIONS : ORGANIZATIONS[k] = o

\* C9: a call never changes the directory; its list is in directory order
\* without repetition; and the call repeated with the same criteria returns
\* the same list in the same order.
C9_PureFilter ==
    /\ [][ORGANIZATIONS' = ORGANIZATIONS]_vars
    /\ [](FilterCalled =>
            /\ \A i \in DOMAIN filtered : filtered[i] \in Range(ORGANIZATIONS)
            /\ \A i, j \in DOMAIN filtered :
                  i < j => Position(filtered[i]) < Position(filtered[j])
            /\ prevFiltered # NoCall => filtered = prevFiltered)

\* A second call with the same criteria has returned a non-empty proper
\* sublist of the directory.
C9_Witness ==
    /\ prevFiltered # NoCall
    /\ Len(filtered) > 1 /\ Len(filtered) < Len(ORGANIZATIONS)

\* C10: a national organization is returned by every query.
C10_NationalAlwaysReturned ==
    FilterCalled =>
        \A o \in Range(ORGANIZATIONS) :
            (\A i \in 1..4 : OrgField(o, i) = None) => Returned(o)

\* A query stating all four levels returns a national organization.
C10_Witness ==
    /\ FilterCalled
    /\ \A i \in 1..4 : QueryField(i) # None
    /\ \E o \in Range(filtered) : \A i \in 1..4 : OrgField(o, i) = None

---------------------------------------------------------------------------
(* Vocabulary of the extraction properties *)

ExtractCalled == extracted # NoResult
MentionsCity(m) == \E k \in DOMAIN location_db : Contains(Lower(m.content), location_db[k].key)

\* C7: the result is the result on the last 6 turns alone; when none of the
\* last 6 turns mentions a city, the result is None whatever earlier turns say.
C7_OnlyLastSix ==
    ExtractCalled =>
        /\ extracted = extract_location_from_messages(LastN(messages, 6))
        /\ (\A i \in DOMAIN messages : i > Len(messages) - 6 => ~MentionsCity(messages[i]))
              => extracted = None

\* A city is mentioned in the 7th-from-last turn only, and nothing is extracted.
C7_Witness ==
    /\ ExtractCalled
    /\ Len(messages) >= 7
    /\ MentionsCity(messages[Len(messages) - 6])
    /\ \A i \in DOMAIN messages : i # Len(messages) - 6 => ~MentionsCity(messages[i])
    /\ extracted = None

---------------------------------------------------------------------------
(* Vocabulary of the conversation properties *)

\* This step is the /chat handler answering a request.
ChatStep == response = NoResponse /\ response' # NoResponse

\* The turn just answered got a collaborator reply holding a finalized
\* candidate (a parsed object with title, description and agency).
RepliedFinalized ==
    /\ response # NoResponse
    /\ assistant_message # NoReply
    /\ IsFinalized(extract_json_from_text(assistant_message.s))
CandidateKeys == DOMAIN extract_json_from_text(assistant_message.s).d

\* C2 as stated: once the conversation has produced a Signal, every later
\* /chat turn is answered with the duplicate-guard response (signal_ready
\* false, conversation_ended true, no signal_data) and adds no Signal.
C2_AsStated ==
    [][(ChatStep /\ signals # <<>>) =>
          /\ response'.signal_ready = FALSE
          /\ "conversation_ended" \in DOMAIN response' /\ response'.conversation_ended = TRUE
          /\ ~HasSignal(response')
          /\ signals' = signals]_vars

\* C4 as stated: a finalized candidate without an agency_id key is answered
\* with signal_sent true and validation_warning "Missing agency_id", whatever
\* its location.
C4_AsStated ==
    (RepliedFinalized /\ <<"agency_id">> \notin CandidateKeys) =>
        /\ response.signal_sent = TRUE
        /\ HasSignal(response)
        /\ <<"validation_warning">> \in DOMAIN response.signal_data.d
        /\ response.signal_data.d[<<"validation_warning">>] = WarningMissing

---------------------------------------------------------------------------
(* Media staging store *)

\* The step is a commit call.
CommitStep == media_call' # media_call /\ media_call'.op = "commit"

\* The media handles attached to some signal.
Attached(store) == {a.media_id : a \in UNION {store[signal_id] : signal_id \in SignalIds}}

\* The requested handles that have a staged artifact, each once, in the order
\* requested.
Matching(media_ids, store) ==
    LET hit(i) == /\ media_ids[i] \in DOMAIN store
                  /\ \A j \in 1..(i - 1) : media_ids[j] # media_ids[i]
        RECURSIVE upto(_)
        upto(i) == IF i = 0 THEN <<>>
                   ELSE IF hit(i) THEN Append(upto(i - 1), media_ids[i]) ELSE upto(i - 1)
    IN  upto(Len(media_ids))

\* C8: after stage() of two items, commit(S, [one of the two media_ids])
\* returns exactly one descriptor, placed under signal S, and the other staged
\* item stays staged and unattached; a handle that matches no staged item is
\* skipped without an error, and commit still returns the descriptors of the
\* handles that do match (and moves exactly those under S).
C8_CommitOnlyMatching ==
    [][CommitStep =>
         LET call == media_call'
             hits == Matching(call.media_ids, staging)
         IN  /\ call.raised = FALSE
             /\ Len(call.descriptors) = Len(hits)
             /\ \A i \in 1..Len(hits) :
                    /\ call.descriptors[i].media_id = hits[i]
                    /\ call.descriptors[i].filename = staging[hits[i]].original_filename
             /\ permanent'[call.signal_id] =
                    permanent[call.signal_id] \cup {staging[h] : h \in Range(hits)}
             /\ \A signal_id \in SignalIds \ {call.signal_id} :
                    permanent'[signal_id] = permanent[signal_id]
             /\ \A g \in DOMAIN staging \ Range(call.media_ids) :
                    /\ g \in DOMAIN staging' /\ staging'[g] = staging[g]
                    /\ g \notin Attached(permanent')
             /\ \A h, g \in DOMAIN staging :
                    (h # g /\ staging[h].batch_id = staging[g].batch_id
                           /\ call.media_ids = <<h>>) =>
                        /\ Len(call.descriptors) = 1
                        /\ call.descriptors[1].media_id = h
                        /\ staging[h] \in permanent'[call.signal_id]
                        /\ g \in DOMAIN staging' /\ g \notin Attached(permanent')]_vars

\* Two items were staged in one batch; one of the two handles was committed to
\* S together with a handle that matches nothing: one descriptor came back,
\* the artifact is under S, the other item is still staged.
C8_Witness ==
    /\ media_call.op = "commit"
    /\ media_call.signal_id = "S"
    /\ media_call.raised = FALSE
    /\ Len(media_call.media_ids) = 2
    /\ Len(media_call.descriptors) = 1
    /\ media_call.descriptors[1].media_id = media_call.media_ids[1]
    /\ media_call.media_ids[2] \notin DOMAIN staging \cup Attached(permanent)
    /\ \E a \in permanent["S"], g \in DOMAIN staging :
           /\ a.media_id = media_call.media_ids[1]
           /\ staging[g].batch_id = a.batch_id
           /\ g \notin Attached(permanent)
---------------------------------------------------------------------------
(* The per-level rules of the filter *)

\* The oblast rule lets o through: either side leaves oblast out, or they match.
OblastRule(o) ==
    \/ OrgField(o, 1) = None
    \/ QueryField(1) = None
    \/ location_matches(QueryField(1), OrgField(o, 1))

\* The rule of level i (obshtina, grad, rayon) lets o through: o leaves the
\* level out, or the query states it and it matches.
LevelRule(o, i) ==
    \/ OrgField(o, i) = None
    \/ (QueryField(i) # None /\ location_matches(QueryField(i), OrgField(o, i)))

---------------------------------------------------------------------------
(* The match rule *)

\* The alternatives of a cell split at every ';' and every ',': the maximal
\* runs holding neither.
AlternativesOfField(f) ==
    { SubSeq(f, i, j) : <<i, j>> \in
        { p \in (1..(Len(f) + 1)) \X (0..Len(f)) :
            /\ p[2] >= p[1] - 1
            /\ (p[1] = 1 \/ f[p[1] - 1] \in {";", ","})
            /\ (p[2] = Len(f) \/ f[p[2] + 1] \in {";", ","})
            /\ \A k \in p[1]..p[2] : f[k] \notin {";", ","} } }

\* The match rule as the claim states it, for a query string u and a field f.
MatchAsStated(u, f) ==
    \/ Lower(Strip(u)) = Lower(Strip(f))
    \/ /\ Separators(f) # {}
       /\ \E alt \in AlternativesOfField(f) : Lower(Strip(u)) = Lower(Strip(alt))

\* Every rule of the filter other than that of level i lets o through.
OtherLevelsPass(o, i) ==
    /\ (i # 1 => OblastRule(o))
    /\ \A j \in 2..4 : j # i => LevelRule(o, j)

\* C12 as stated: at every level, for a query string u and a present field f,
\* the filter takes u to match f iff their trimmed, case-folded forms are
\* equal, or f holds a ';' or ',' and u equals, trimmed and case-folded, one of
\* the alternatives of f split at its ';' and ',' separators (also when f
\* mixes both separators).
C12_AsStated ==
    FilterCalled =>
        \A o \in Range(ORGANIZATIONS) : \A i \in 1..4 :
            (OrgField(o, i) # None /\ QueryField(i) # None /\ OtherLevelsPass(o, i))
                => (Returned(o) <=> MatchAsStated(QueryField(i).s, OrgField(o, i).s))
---------------------------------------------------------------------------
(* Agency validation *)

\* C13 as stated: whenever the collaborator's reply holds a finalized
\* candidate, the turn ends with signal_ready and signal_sent true and the
\* Signal returned, whatever the candidate's agency_id and location are
\* (present, absent, null, matching no organization).
C13_AsStated ==
    RepliedFinalized =>
        /\ response.signal_ready = TRUE
        /\ response.signal_sent = TRUE
        /\ HasSignal(response)
\* The candidate of the turn just answered, and the signal_data returned.
Candidate == extract_json_from_text(assistant_message.s).d
Returned_signal_data == response.signal_data.d

\* The candidate's own declared location: its levels, none when it declares
\* no location.
DeclaredLocation ==
    IF <<"location">> \in DOMAIN Candidate /\ Candidate[<<"location">>].t = "obj"
    THEN Candidate[<<"location">>].d
    ELSE <<>>

\* The ids of the organizations valid for the declared location.
AuthoritativeIds ==
    LET A == filter_organizations_by_location(
                 Get(DeclaredLocation, <<"oblast">>), Get(DeclaredLocation, <<"obshtina">>),
                 Get(DeclaredLocation, <<"grad">>), Get(DeclaredLocation, <<"rayon">>))
    IN  {Num(A[i].id) : i \in DOMAIN A}

HasWarning == <<"validation_warning">> \in DOMAIN Returned_signal_data
\* The "Invalid agency_id ... for location" warning (the code's text names
\* the id).
HasInvalidWarning ==
    /\ HasWarning
    /\ <<"agency_id">> \in DOMAIN Candidate
    /\ Returned_signal_data[<<"validation_warning">>] = WarningInvalid(Candidate[<<"agency_id">>])

\* C14 as stated: a finalized Signal carries the invalid-agency warning iff
\* its agency_id is present and is not the id of an organization valid for
\* its own declared location, and carries no warning iff its agency_id is
\* such an id; the location context of the request plays no part.
C14_AsStated ==
    (RepliedFinalized /\ HasSignal(response)) =>
        /\ HasInvalidWarning <=>
              (<<"agency_id">> \in DOMAIN Candidate
               /\ Candidate[<<"agency_id">>] \notin AuthoritativeIds)
        /\ ~HasWarning <=>
              (<<"agency_id">> \in DOMAIN Candidate
               /\ Candidate[<<"agency_id">>] \in AuthoritativeIds)
---------------------------------------------------------------------------
(* Replies that are not finalized *)

\* The turn just answered got a collaborator reply that is not finalized.
RepliedNotFinalized ==
    /\ response # NoResponse
    /\ assistant_message # NoReply
    /\ ~IsFinalized(extract_json_from_text(assistant_message.s))

\* No assistant turn of the conversation holds a finalized candidate.
StillCollecting ==
    \A i \in DOMAIN messages :
        messages[i].role = "assistant"
            => ~IsFinalized(extract_json_from_text(messages[i].content))

\* C15 as stated: a reply that is not finalized is answered with
\* signal_ready and signal_sent false and the reply as message, creates no
\* Signal, and leaves the conversation collecting: a later /chat turn on a
\* conversation whose assistant turns are all such replies is not answered
\* with the duplicate-guard response.
C15_AsStated ==
    /\ [](RepliedNotFinalized =>
             /\ response.signal_ready = FALSE
             /\ response.signal_sent = FALSE
             /\ response.message = assistant_message
             /\ ~HasSignal(response))
    /\ [][(ChatStep /\ StillCollecting) => response' # DuplicateResponse]_vars
---------------------------------------------------------------------------
(* Most-recent-first extraction *)

\* The turns among the last 6 that hold a city key, by position in messages.
CityTurns == {i \in DOMAIN messages : i > Len(messages) - 6 /\ MentionsCity(messages[i])}
MentionsDistrict(m) ==
    \E k \in DOMAIN rayon_patterns : Contains(Lower(m.content), rayon_patterns[k].key)

\* C16: the result is the triple of a city key occurring in the most recent
\* of the last 6 turns that holds any city key; it has a rayon iff that same
\* turn holds a district key (and then the rayon of a district key of that
\* turn); a district named only in another turn is never attached.
C16_MostRecentSameTurn ==
    (ExtractCalled /\ CityTurns # {}) =>
        LET m == CHOOSE i \in CityTurns : \A j \in CityTurns : j <= i
            content == Lower(messages[m].content)
        IN  /\ extracted # None
            /\ \E k \in DOMAIN location_db :
                   /\ Contains(content, location_db[k].key)
                   /\ extracted[<<"oblast">>] = location_db[k].oblast
                   /\ extracted[<<"obshtina">>] = location_db[k].obshtina
                   /\ extracted[<<"grad">>] = location_db[k].grad
            /\ <<"rayon">> \in DOMAIN extracted <=> MentionsDistrict(messages[m])
            /\ <<"rayon">> \in DOMAIN extracted =>
                   \E k \in DOMAIN rayon_patterns :
                       /\ Contains(content, rayon_patterns[k].key)
                       /\ extracted[<<"rayon">>] = rayon_patterns[k].value

\* An earlier turn names a city with its district, the most recent city turn
\* names Varna alone, a later turn names a district alone: the result is
\* Varna without a rayon.
C16_Witness ==
    /\ ExtractCalled /\ CityTurns # {}
    /\ LET m == CHOOSE i \in CityTurns : \A j \in CityTurns : j <= i
       IN  /\ ~MentionsDistrict(messages[m])
           /\ \E j \in CityTurns : j < m /\ MentionsDistrict(messages[j])
           /\ \E j \in DOMAIN messages : j > m /\ MentionsDistrict(messages[j])
    /\ extracted # None
    /\ extracted[<<"grad">>] = Varna
    /\ <<"rayon">> \notin DOMAIN extracted
---------------------------------------------------------------------------
(* Collaborator failure *)

\* The step is a /chat turn whose collaborator call failed: the guard did
\* not answer and no reply was obtained.
FailedTurn == ChatStep /\ ~SignalAlreadySent(messages) /\ assistant_message' = NoReply

\* The step is the repeat of the request after a failed turn.
RepeatAfterFailure ==
    /\ response = ApologyResponse /\ assistant_message = NoReply
    /\ response' = NoResponse

\* C17: a failed collaborator call is answered with the apology,
\* signal_ready and signal_sent false and no Signal, and changes neither the
\* conversation nor the signals nor the directory; the repeat of the request
\* starts from the state the failed turn started from (same conversation, same
\* signals, no reply, no response), and a turn that gets a reply is answered
\* from the conversation, the request's context and the reply alone.
C17_FailureRecovered ==
    /\ [][FailedTurn =>
             /\ response'.signal_ready = FALSE
             /\ response'.signal_sent = FALSE
             /\ response'.message = MsgApology
             /\ ~HasSignal(response')
             /\ "conversation_ended" \notin DOMAIN response'
             /\ signals' = signals
             /\ messages' = messages
             /\ SignalAlreadySent(messages') = SignalAlreadySent(messages)
             /\ ORGANIZATIONS' = ORGANIZATIONS]_vars
    /\ [][RepeatAfterFailure =>
             /\ messages' = messages
             /\ signals' = signals
             /\ assistant_message' = NoReply]_vars
    /\ [][ChatStep => (response = NoResponse /\ assistant_message = NoReply)]_vars
    /\ [][(ChatStep /\ assistant_message' # NoReply) =>
             LET lc == LocationContextOf(request_context', messages)
             IN  response' = ResponseToReply(assistant_message'.s, lc, FilteredOrgsFor(lc))]_vars

\* The collaborator call of the third turn of a conversation failed: the
\* apology was returned, the conversation still ends with the user's turn and
\* no Signal exists.
C17_Witness ==
    /\ Len(messages) = 3
    /\ messages[3].role = "user"
    /\ ~SignalAlreadySent(messages)
    /\ response = ApologyResponse
    /\ assistant_message = NoReply
    /\ signals = <<>>
====
